---- MODULE Spec2Model ----
(***************************************************************************)
(* Discrete-event network simulation of src/src/network_core.rs:           *)
(* topology (servers, clients, directed links), breadth-first next-hop     *)
(* routing, per-link serialization queue (queue_end_time), the BinaryHeap  *)
(* event queue and the run_simulation loop with its protocol replies.      *)
(*                                                                         *)
(* Time is counted in integer ticks and distance in integer units; the    *)
(* f64 divisions of the source are integer divisions here, and the input   *)
(* sets below are chosen so that they are exact.  Bandwidths are positive  *)
(* (bits per tick).                                                        *)
(***************************************************************************)
EXTENDS Integers, Sequences, FiniteSets, TLC

----------------------------------------------------------------------------
(* Bounds of the explored inputs *)

\* largest number of connect_nodes calls
MaxLinks == 2
\* largest number of send_packet_ex calls made by the caller
MaxInject == 2
\* the horizons passed to run_simulation
ShortHorizon == 18
LongHorizon == 1000
Horizons == {ShortHorizon, LongHorizon}
\* processing_delay of the servers that are added
ProcDelay == 3
\* bandwidth (bits per tick) of the links that are connected
LinkBandwidth == 256
\* payload of the packets the caller injects (bytes)
CallerSize == 64

NodeIds == {1, 2, 3}
\* the ids add_server and add_client are called with
ServerIds == {2, 3}
ClientIds == {1}
\* the endpoints connect_nodes is called with: a chain 1 - 2 - 3, both directions
LinkPairs == {<<1, 2>>, <<2, 1>>, <<2, 3>>, <<3, 2>>}
\* the node the caller injects from
CallerSources == {1}
\* position of the node with a given id on a line (distance units)
LocationOf(id) == (id - 1) * 50

----------------------------------------------------------------------------
(* Program constants *)

\* PATH_INEFFICIENCY_FACTOR = 1.3, as the fraction 13 / 10
PATH_INEFFICIENCY_NUM == 13
PATH_INEFFICIENCY_DEN == 10
\* SPEED_IN_FIBER, in distance units per tick
SPEED_IN_FIBER == 5
\* sizes of the automatic replies (bytes)
HandshakeReplySize == 64
CdnReplySize == 1024

PacketType == {"Standard", "TcpSyn", "TcpSynAck", "TcpAck", "CdnRequest", "CdnResponse"}
\* the tags the callers of src/src/theories.rs inject
CallerTypes == {"Standard", "TcpSyn", "CdnRequest"}

\* Option::None for a node id
None == -1

Max(a, b) == IF a >= b THEN a ELSE b
Abs(a) == IF a >= 0 THEN a ELSE 0 - a

----------------------------------------------------------------------------
(* State *)

VARIABLES
    servers,            \* HashMap<usize, Server>: id -> [location, processing_delay]
    clients,            \* HashMap<usize, Client>: id -> [location]
    links,              \* Vec<NetworkLink>
    event_queue,        \* BinaryHeap<Event>, as its backing vector
    current_time,       \* f64
    completed_packets,  \* Vec<(DataPacket, f64)>
    pc,                 \* "idle", or "running" inside run_simulation's loop
    duration,           \* the argument of the run_simulation call in progress
    reservations,       \* history: per link, the slots reserved on it, in order
    calls,              \* history: the send_packet_ex calls made by the caller
    dropped,            \* history: number of events popped and never dispatched
    last                \* history: what the latest loop iteration popped and did

vars == <<servers, clients, links, event_queue, current_time, completed_packets,
          pc, duration, reservations, calls, dropped, last>>

----------------------------------------------------------------------------
(* Geo model and links *)

\* GeoLocation::distance_to: the haversine distance is replaced by the distance of
\* two positions on a line (non-negative, symmetric, 0 for the same position)
distance_to(a, b) == Abs(b - a)

\* the closure get_loc of calculate_distance: servers first, then clients
get_loc(srv, cli, id) ==
    IF id \in DOMAIN srv THEN srv[id].location
    ELSE IF id \in DOMAIN cli THEN cli[id].location
    ELSE None

\* calculate_distance; the two expect() calls abort when has_loc is FALSE
has_loc(srv, cli, id) == id \in DOMAIN srv \/ id \in DOMAIN cli
calculate_distance(srv, cli, from_id, to_id) ==
    distance_to(get_loc(srv, cli, from_id), get_loc(srv, cli, to_id))

NetworkLink_new(from_id, to_id, dist, bw) ==
    LET real_world_distance == (dist * PATH_INEFFICIENCY_NUM) \div PATH_INEFFICIENCY_DEN
        lat == real_world_distance \div SPEED_IN_FIBER
    IN  [from |-> from_id, to |-> to_id, distance |-> real_world_distance,
         latency |-> lat, bandwidth |-> bw, queue_end_time |-> 0]

transmission_time(link, size) == (size * 8) \div link.bandwidth

----------------------------------------------------------------------------
(* Router *)

\* bfs_expand that goes through the links from the last one inserted to the first
RECURSIVE bfs_expand_latest_first(_, _, _, _, _, _)
bfs_expand_latest_first(lks, current, first_hop, i, queue, visited) ==
    IF i > Len(lks) THEN [queue |-> queue, visited |-> visited]
    ELSE LET link == lks[Len(lks) + 1 - i]
         IN  IF link.from = current /\ link.to \notin visited
             THEN LET next_hop == IF first_hop = None THEN link.to ELSE first_hop
                  IN  bfs_expand_latest_first(lks, current, first_hop, i + 1,
                                              Append(queue, <<link.to, next_hop>>),
                                              visited \cup {link.to})
             ELSE bfs_expand_latest_first(lks, current, first_hop, i + 1, queue, visited)

\* bfs_expand that hands on the link's target in place of the first hop
RECURSIVE bfs_expand_last_hop(_, _, _, _, _, _)
bfs_expand_last_hop(lks, current, first_hop, i, queue, visited) ==
    IF i > Len(lks) THEN [queue |-> queue, visited |-> visited]
    ELSE IF lks[i].from = current /\ lks[i].to \notin visited
         THEN bfs_expand_last_hop(lks, current, first_hop, i + 1,
                                  Append(queue, <<lks[i].to, lks[i].to>>),
                                  visited \cup {lks[i].to})
         ELSE bfs_expand_last_hop(lks, current, first_hop, i + 1, queue, visited)

\* bfs_expand that marks the node it expands, not the nodes it pushes
RECURSIVE bfs_expand_mark_on_expand(_, _, _, _, _, _)
bfs_expand_mark_on_expand(lks, current, first_hop, i, queue, visited) ==
    IF i > Len(lks) THEN [queue |-> queue, visited |-> visited \cup {current}]
    ELSE IF lks[i].from = current /\ lks[i].to \notin visited \cup {current}
         THEN LET next_hop == IF first_hop = None THEN lks[i].to ELSE first_hop
              IN  bfs_expand_mark_on_expand(lks, current, first_hop, i + 1,
                             Append(queue, <<lks[i].to, next_hop>>), visited)
         ELSE bfs_expand_mark_on_expand(lks, current, first_hop, i + 1, queue, visited)

\* the for loop of find_next_hop over the links leaving current, from index i on:
\* every unvisited target is marked visited and pushed with its first hop
RECURSIVE bfs_expand(_, _, _, _, _, _)
bfs_expand(lks, current, first_hop, i, queue, visited) ==
    IF i > Len(lks) THEN [queue |-> queue, visited |-> visited]
    ELSE IF lks[i].from = current /\ lks[i].to \notin visited
         THEN LET next_hop == IF first_hop = None THEN lks[i].to ELSE first_hop
              IN  bfs_expand(lks, current, first_hop, i + 1,
                             Append(queue, <<lks[i].to, next_hop>>),
                             visited \cup {lks[i].to})
         ELSE bfs_expand(lks, current, first_hop, i + 1, queue, visited)

\* the while loop of find_next_hop
RECURSIVE bfs_loop(_, _, _, _)
bfs_loop(lks, to, queue, visited) ==
    IF queue = <<>> THEN None
    ELSE LET current == Head(queue)[1]
             first_hop == Head(queue)[2]
         IN  IF current = to THEN first_hop
             ELSE LET r == bfs_expand(lks, current, first_hop, 1, Tail(queue), visited)
                  IN  bfs_loop(lks, to, r.queue, r.visited)

\* the nodes pushed onto the queue of find_next_hop by the while loop, in the order
\* of the pushes (the source is pushed before the loop)
RECURSIVE bfs_pushed(_, _, _, _)
bfs_pushed(lks, to, queue, visited) ==
    IF queue = <<>> THEN <<>>
    ELSE LET current == Head(queue)[1]
             first_hop == Head(queue)[2]
         IN  IF current = to THEN <<>>
             ELSE LET r == bfs_expand(lks, current, first_hop, 1, Tail(queue), visited)
                      pushed == SubSeq(r.queue, Len(queue), Len(r.queue))
                  IN  [i \in 1..Len(pushed) |-> pushed[i][1]]
                          \o bfs_pushed(lks, to, r.queue, r.visited)

\* find_next_hop with a shortcut: a link from -> to is taken without a search
find_next_hop_direct_first(lks, from, to) ==
    IF \E i \in 1..Len(lks) : lks[i].from = from /\ lks[i].to = to THEN to
    ELSE bfs_loop(lks, to, <<<<from, None>>>>, {from})

find_next_hop(lks, from, to) == bfs_loop(lks, to, <<<<from, None>>>>, {from})

\* links.iter().find(|l| l.from == from && l.to == to): index of the first such
\* link, 0 when there is none
find_link(lks, from, to) ==
    LET hits == {i \in 1..Len(lks) : lks[i].from = from /\ lks[i].to = to}
    IN  IF hits = {} THEN 0 ELSE CHOOSE i \in hits : \A j \in hits : i <= j

----------------------------------------------------------------------------
(* Event queue: std BinaryHeap<Event> over impl Ord for Event *)

\* the order of the times themselves, not reversed
event_le_natural(a, b) == a.time <= b.time

\* a <= b in the order of impl Ord for Event (reversed on time)
event_le(a, b) == b.time <= a.time

swap(data, i, j) == [data EXCEPT ![i] = data[j], ![j] = data[i]]

\* BinaryHeap::sift_up(start, pos), indices from 1
RECURSIVE sift_up(_, _, _)
sift_up(data, start, pos) ==
    IF pos > start
    THEN LET parent == pos \div 2
         IN  IF event_le(data[pos], data[parent]) THEN data
             ELSE sift_up(swap(data, pos, parent), start, parent)
    ELSE data

\* the descent of BinaryHeap::sift_down_to_bottom: the hole moves to its greater
\* child down to a leaf; gives the vector and the final position of the hole
RECURSIVE sift_down(_, _)
sift_down(data, pos) ==
    LET end == Len(data)
        child == 2 * pos
    IN  IF child + 1 <= end
        THEN LET c == IF event_le(data[child], data[child + 1]) THEN child + 1 ELSE child
             IN  sift_down(swap(data, pos, c), c)
        ELSE IF child = end
             THEN [data |-> swap(data, pos, child), pos |-> child]
             ELSE [data |-> data, pos |-> pos]

sift_down_to_bottom(data, pos) ==
    LET r == sift_down(data, pos) IN sift_up(r.data, pos, r.pos)

\* BinaryHeap::push
heap_push(data, item) == sift_up(Append(data, item), 1, Len(data) + 1)

\* BinaryHeap::pop on a non-empty heap: the greatest element and the rest
heap_pop(data) ==
    LET n == Len(data)
        rest == SubSeq(data, 1, n - 1)
    IN  IF n = 1 THEN [item |-> data[1], data |-> <<>>]
        ELSE [item |-> data[1],
              data |-> sift_down_to_bottom([rest EXCEPT ![1] = data[n]], 1)]

----------------------------------------------------------------------------
(* NetworkSimulation *)

\* self, as the record of the fields of NetworkSimulation
Self ==
    [servers |-> servers, clients |-> clients, links |-> links,
     event_queue |-> event_queue, current_time |-> current_time,
     completed_packets |-> completed_packets]

\* HashMap::insert
map_insert(m, k, v) == [x \in DOMAIN m \cup {k} |-> IF x = k THEN v ELSE m[x]]

add_server(self, server) ==
    [self EXCEPT !.servers = map_insert(self.servers, server.id,
        [location |-> server.location, processing_delay |-> server.processing_delay])]

add_client(self, client) ==
    [self EXCEPT !.clients = map_insert(self.clients, client.id,
        [location |-> client.location])]

connect_nodes(self, from_id, to_id, bandwidth) ==
    LET distance == calculate_distance(self.servers, self.clients, from_id, to_id)
        link == NetworkLink_new(from_id, to_id, distance, bandwidth)
    IN  [self EXCEPT !.links = Append(self.links, link)]

\* reserve with the slot started at the request time, the link's queue ignored
reserve_unqueued(link, now, size) ==
    LET trans_time == transmission_time(link, size)
        start_time == now
        arrival_time == start_time + link.latency + trans_time
    IN  [link |-> [link EXCEPT !.queue_end_time = start_time + trans_time],
         arrival_time |-> arrival_time,
         start_time |-> start_time,
         trans_time |-> trans_time]

\* reserve with the queue-horizon counted from the request time
reserve_horizon_from_request(link, now, size) ==
    LET trans_time == transmission_time(link, size)
        start_time == Max(now, link.queue_end_time)
        arrival_time == start_time + link.latency + trans_time
    IN  [link |-> [link EXCEPT !.queue_end_time = now + trans_time],
         arrival_time |-> arrival_time,
         start_time |-> start_time,
         trans_time |-> trans_time]

\* reserve with the link kept busy during the propagation as well
reserve_blocking_propagation(link, now, size) ==
    LET trans_time == transmission_time(link, size)
        start_time == Max(now, link.queue_end_time)
        arrival_time == start_time + link.latency + trans_time
    IN  [link |-> [link EXCEPT !.queue_end_time = arrival_time],
         arrival_time |-> arrival_time,
         start_time |-> start_time,
         trans_time |-> trans_time]

\* reserve with a queue horizon at the start of the transmission, not at its end
reserve_horizon_at_start(link, now, size) ==
    LET trans_time == transmission_time(link, size)
        start_time == Max(now, link.queue_end_time)
        arrival_time == start_time + link.latency + trans_time
    IN  [link |-> [link EXCEPT !.queue_end_time = start_time],
         arrival_time |-> arrival_time,
         start_time |-> start_time, trans_time |-> trans_time]

\* reserve with an arrival that leaves out the propagation latency of the link
reserve_no_propagation(link, now, size) ==
    LET trans_time == transmission_time(link, size)
        start_time == Max(now, link.queue_end_time)
        arrival_time == start_time + trans_time
    IN  [link |-> [link EXCEPT !.queue_end_time = start_time + trans_time],
         arrival_time |-> arrival_time,
         start_time |-> start_time, trans_time |-> trans_time]

\* reserve that also adds the transmission time to the link's propagation latency
reserve_adding_latency(link, now, size) ==
    LET trans_time == transmission_time(link, size)
        start_time == Max(now, link.queue_end_time)
        arrival_time == start_time + link.latency + trans_time
    IN  [link |-> [link EXCEPT !.queue_end_time = start_time + trans_time,
                               !.latency = @ + trans_time],
         arrival_time |-> arrival_time,
         start_time |-> start_time,
         trans_time |-> trans_time]

\* the reservation of a transmission slot on a link, written out twice in the
\* source: in send_packet_ex and in the PacketTransmissionComplete arm
reserve(link, now, size) ==
    LET trans_time == transmission_time(link, size)
        start_time == Max(now, link.queue_end_time)
        arrival_time == start_time + link.latency + trans_time
    IN  [link |-> [link EXCEPT !.queue_end_time = start_time + trans_time],
         arrival_time |-> arrival_time,
         start_time |-> start_time,
         trans_time |-> trans_time]

PacketArrival(node) == [kind |-> "PacketArrival", node |-> node]
PacketTransmissionComplete(node) == [kind |-> "PacketTransmissionComplete", node |-> node]

\* the packet send_packet_ex builds
new_packet(self, from, to, size_bytes, p_type) ==
    [id |-> Len(self.completed_packets) + Len(self.event_queue),
     source_id |-> from,
     destination_id |-> to,
     size_bytes |-> size_bytes,
     created_at |-> self.current_time,
     packet_type |-> p_type]

\* forward that schedules the arrival of the packet twice
forward_duplicating(self, node, packet) ==
    LET next_hop == find_next_hop(self.links, node, packet.destination_id)
        k == IF next_hop = None THEN 0 ELSE find_link(self.links, node, next_hop)
    IN  IF k = 0 THEN self
        ELSE LET r == reserve(self.links[k], self.current_time, packet.size_bytes)
                 arrival == [time |-> r.arrival_time, packet |-> packet,
                             event_type |-> PacketArrival(next_hop)]
             IN  [self EXCEPT
                    !.links = [self.links EXCEPT ![k] = r.link],
                    !.event_queue = heap_push(heap_push(self.event_queue, arrival), arrival)]

\* forward with a packet that has no next hop handed to its destination at once
forward_unrouted(self, node, packet) ==
    LET next_hop == find_next_hop(self.links, node, packet.destination_id)
        k == IF next_hop = None THEN 0 ELSE find_link(self.links, node, next_hop)
    IN  IF k = 0
        THEN [self EXCEPT !.event_queue = heap_push(self.event_queue,
                 [time |-> self.current_time, packet |-> packet,
                  event_type |-> PacketArrival(packet.destination_id)])]
        ELSE LET r == reserve(self.links[k], self.current_time, packet.size_bytes)
             IN  [self EXCEPT
                    !.links = [self.links EXCEPT ![k] = r.link],
                    !.event_queue = heap_push(self.event_queue,
                        [time |-> r.arrival_time, packet |-> packet,
                         event_type |-> PacketArrival(next_hop)])]

\* reserve a slot for packet on the first link node -> next hop towards its
\* destination and schedule its arrival; nothing when there is no next hop
forward(self, node, packet) ==
    LET next_hop == find_next_hop(self.links, node, packet.destination_id)
        k == IF next_hop = None THEN 0 ELSE find_link(self.links, node, next_hop)
    IN  IF k = 0 THEN self
        ELSE LET r == reserve(self.links[k], self.current_time, packet.size_bytes)
             IN  [self EXCEPT
                    !.links = [self.links EXCEPT ![k] = r.link],
                    !.event_queue = heap_push(self.event_queue,
                        [time |-> r.arrival_time, packet |-> packet,
                         event_type |-> PacketArrival(next_hop)])]

\* history only: the slot forward reserves (the link's index, the arguments and
\* the locals start_time and trans_time), <<>> when it reserves none
forward_slot(self, node, packet) ==
    LET next_hop == find_next_hop(self.links, node, packet.destination_id)
        k == IF next_hop = None THEN 0 ELSE find_link(self.links, node, next_hop)
    IN  IF k = 0 THEN <<>>
        ELSE LET r == reserve(self.links[k], self.current_time, packet.size_bytes)
             IN  <<[link |-> k, request_time |-> self.current_time,
                    size_bytes |-> packet.size_bytes,
                    start_time |-> r.start_time, trans_time |-> r.trans_time]>>

\* send_packet_ex that records a packet with no route as completed at once
send_packet_ex_recording(self, from, to, size_bytes, p_type) ==
    LET packet == new_packet(self, from, to, size_bytes, p_type)
        after == forward(self, from, packet)
    IN  IF find_next_hop(self.links, from, to) = None
        THEN [self EXCEPT !.completed_packets = Append(@, <<packet, 0>>)]
        ELSE after

send_packet_ex(self, from, to, size_bytes, p_type) ==
    forward(self, from, new_packet(self, from, to, size_bytes, p_type))

\* the lines send_packet_ex writes to standard output: it has no println, on the
\* path that schedules an arrival as on the paths that find no next hop or no link
send_packet_ex_printed(self, from, to, size_bytes, p_type) == <<>>

\* reply_call that answers a TcpAck with a TcpSynAck again
reply_call_ack_answered(node_id, packet) ==
    CASE packet.packet_type = "TcpSyn" ->
            <<[from |-> node_id, to |-> packet.source_id,
               size_bytes |-> HandshakeReplySize, packet_type |-> "TcpSynAck"]>>
      [] packet.packet_type = "TcpSynAck" ->
            <<[from |-> node_id, to |-> packet.source_id,
               size_bytes |-> HandshakeReplySize, packet_type |-> "TcpAck"]>>
      [] packet.packet_type = "TcpAck" ->
            <<[from |-> node_id, to |-> packet.source_id,
               size_bytes |-> HandshakeReplySize, packet_type |-> "TcpSynAck"]>>
      [] packet.packet_type = "CdnRequest" ->
            <<[from |-> node_id, to |-> packet.source_id,
               size_bytes |-> CdnReplySize, packet_type |-> "CdnResponse"]>>
      [] OTHER -> <<>>

\* reply_call without the TcpAck that answers a TcpSynAck
reply_call_no_ack(node_id, packet) ==
    CASE packet.packet_type = "TcpSyn" ->
            <<[from |-> node_id, to |-> packet.source_id,
               size_bytes |-> HandshakeReplySize, packet_type |-> "TcpSynAck"]>>
      [] packet.packet_type = "CdnRequest" ->
            <<[from |-> node_id, to |-> packet.source_id,
               size_bytes |-> CdnReplySize, packet_type |-> "CdnResponse"]>>
      [] OTHER -> <<>>

\* reply_call with the cache response as small as a handshake reply
reply_call_small_response(node_id, packet) ==
    CASE packet.packet_type = "TcpSyn" ->
            <<[from |-> node_id, to |-> packet.source_id,
               size_bytes |-> HandshakeReplySize, packet_type |-> "TcpSynAck"]>>
      [] packet.packet_type = "TcpSynAck" ->
            <<[from |-> node_id, to |-> packet.source_id,
               size_bytes |-> HandshakeReplySize, packet_type |-> "TcpAck"]>>
      [] packet.packet_type = "CdnRequest" ->
            <<[from |-> node_id, to |-> packet.source_id,
               size_bytes |-> HandshakeReplySize, packet_type |-> "CdnResponse"]>>
      [] OTHER -> <<>>

\* the automatic reply to a packet that reached its destination node_id:
\* the arguments of the send_packet_ex call, or <<>> when there is none
reply_call(node_id, packet) ==
    CASE packet.packet_type = "TcpSyn" ->
            <<[from |-> node_id, to |-> packet.source_id,
               size_bytes |-> HandshakeReplySize, packet_type |-> "TcpSynAck"]>>
      [] packet.packet_type = "TcpSynAck" ->
            <<[from |-> node_id, to |-> packet.source_id,
               size_bytes |-> HandshakeReplySize, packet_type |-> "TcpAck"]>>
      [] packet.packet_type = "CdnRequest" ->
            <<[from |-> node_id, to |-> packet.source_id,
               size_bytes |-> CdnReplySize, packet_type |-> "CdnResponse"]>>
      [] OTHER -> <<>>

\* dispatch that holds a packet for ProcDelay at every node on its way, servers and
\* clients alike
dispatch_delaying_clients(self, event) ==
    LET node_id == event.event_type.node
        packet == event.packet
    IN  IF event.event_type.kind = "PacketArrival"
        THEN IF node_id = packet.destination_id
             THEN LET latency == self.current_time - packet.created_at
                      rc == reply_call(node_id, packet)
                      replied == IF rc = <<>> THEN self
                                 ELSE send_packet_ex(self, rc[1].from, rc[1].to,
                                                     rc[1].size_bytes, rc[1].packet_type)
                  IN  [replied EXCEPT !.completed_packets =
                          Append(replied.completed_packets, <<packet, latency>>)]
             ELSE [self EXCEPT !.event_queue = heap_push(self.event_queue,
                      [time |-> self.current_time + ProcDelay, packet |-> packet,
                       event_type |-> PacketTransmissionComplete(node_id)])]
        ELSE forward(self, node_id, packet)

\* dispatch that records a delivered packet only if its reply, when there is one,
\* was scheduled
dispatch_unrecorded_on_drop(self, event) ==
    LET node_id == event.event_type.node
        packet == event.packet
    IN  IF event.event_type.kind = "PacketArrival"
        THEN IF node_id = packet.destination_id
             THEN LET latency == self.current_time - packet.created_at
                      rc == reply_call(node_id, packet)
                      replied == IF rc = <<>> THEN self
                                 ELSE send_packet_ex(self, rc[1].from, rc[1].to,
                                                     rc[1].size_bytes, rc[1].packet_type)
                  IN  IF rc # <<>> /\ replied = self THEN self
                      ELSE [replied EXCEPT !.completed_packets =
                               Append(replied.completed_packets, <<packet, latency>>)]
             ELSE LET delay == IF node_id \in DOMAIN self.servers
                               THEN self.servers[node_id].processing_delay ELSE 0
                  IN  [self EXCEPT !.event_queue = heap_push(self.event_queue,
                          [time |-> self.current_time + delay, packet |-> packet,
                           event_type |-> PacketTransmissionComplete(node_id)])]
        ELSE forward(self, node_id, packet)

\* dispatch that schedules nothing for a packet that arrives at a node on its way
dispatch_relay_drops(self, event) ==
    LET node_id == event.event_type.node
        packet == event.packet
    IN  IF event.event_type.kind = "PacketArrival"
        THEN IF node_id = packet.destination_id
             THEN LET latency == self.current_time - packet.created_at
                      rc == reply_call(node_id, packet)
                      replied == IF rc = <<>> THEN self
                                 ELSE send_packet_ex(self, rc[1].from, rc[1].to,
                                                     rc[1].size_bytes, rc[1].packet_type)
                  IN  [replied EXCEPT !.completed_packets =
                          Append(replied.completed_packets, <<packet, latency>>)]
             ELSE self
        ELSE forward(self, node_id, packet)

\* dispatch that, after it recorded a packet at its destination, goes on to
\* schedule a transmission-complete event for it as at any other node
dispatch_forwarding_delivered(self, event) ==
    LET node_id == event.event_type.node
        packet == event.packet
        delay == IF node_id \in DOMAIN self.servers
                 THEN self.servers[node_id].processing_delay ELSE 0
    IN  IF event.event_type.kind = "PacketArrival"
        THEN LET latency == self.current_time - packet.created_at
                 rc == reply_call(node_id, packet)
                 replied == IF rc = <<>> THEN self
                            ELSE send_packet_ex(self, rc[1].from, rc[1].to,
                                                rc[1].size_bytes, rc[1].packet_type)
                 recorded == IF node_id = packet.destination_id
                             THEN [replied EXCEPT !.completed_packets =
                                      Append(replied.completed_packets, <<packet, latency>>)]
                             ELSE self
             IN  [recorded EXCEPT !.event_queue = heap_push(recorded.event_queue,
                     [time |-> self.current_time + delay, packet |-> packet,
                      event_type |-> PacketTransmissionComplete(node_id)])]
        ELSE forward(self, node_id, packet)

\* the match on event.event_type in run_simulation; self.event_queue has the
\* event popped and self.current_time is event.time
dispatch(self, event) ==
    LET node_id == event.event_type.node
        packet == event.packet
    IN  IF event.event_type.kind = "PacketArrival"
        THEN IF node_id = packet.destination_id
             THEN LET latency == self.current_time - packet.created_at
                      rc == reply_call(node_id, packet)
                      replied == IF rc = <<>> THEN self
                                 ELSE send_packet_ex(self, rc[1].from, rc[1].to,
                                                     rc[1].size_bytes, rc[1].packet_type)
                  IN  [replied EXCEPT !.completed_packets =
                          Append(replied.completed_packets, <<packet, latency>>)]
             ELSE LET delay == IF node_id \in DOMAIN self.servers
                               THEN self.servers[node_id].processing_delay ELSE 0
                  IN  [self EXCEPT !.event_queue = heap_push(self.event_queue,
                          [time |-> self.current_time + delay, packet |-> packet,
                           event_type |-> PacketTransmissionComplete(node_id)])]
        ELSE forward(self, node_id, packet)

\* history only: the slot dispatch reserves
dispatch_slot(self, event) ==
    LET node_id == event.event_type.node
        packet == event.packet
    IN  IF event.event_type.kind = "PacketArrival"
        THEN IF node_id = packet.destination_id
             THEN LET rc == reply_call(node_id, packet)
                  IN  IF rc = <<>> THEN <<>>
                      ELSE forward_slot(self, rc[1].from,
                               new_packet(self, rc[1].from, rc[1].to,
                                          rc[1].size_bytes, rc[1].packet_type))
             ELSE <<>>
        ELSE forward_slot(self, node_id, packet)

\* run_step that leaves the loop at an event whose time is the horizon itself
run_step_before_horizon(self, horizon) ==
    IF self.event_queue = <<>> THEN [self |-> self, continue |-> FALSE]
    ELSE LET p == heap_pop(self.event_queue)
             popped == [self EXCEPT !.event_queue = p.data]
         IN  IF p.item.time >= horizon THEN [self |-> popped, continue |-> FALSE]
             ELSE [self |-> dispatch([popped EXCEPT !.current_time = p.item.time], p.item),
                   continue |-> TRUE]

\* one iteration of the while loop of run_simulation: the state after it and
\* whether the loop goes on
run_step(self, horizon) ==
    IF self.event_queue = <<>> THEN [self |-> self, continue |-> FALSE]
    ELSE LET p == heap_pop(self.event_queue)
             popped == [self EXCEPT !.event_queue = p.data]
         IN  IF p.item.time > horizon THEN [self |-> popped, continue |-> FALSE]
             ELSE [self |-> dispatch([popped EXCEPT !.current_time = p.item.time], p.item),
                   continue |-> TRUE]

RECURSIVE run_simulation(_, _)
run_simulation(self, horizon) ==
    LET r == run_step(self, horizon)
    IN  IF r.continue THEN run_simulation(r.self, horizon) ELSE r.self

----------------------------------------------------------------------------
(* Operations of the caller and the loop of run_simulation *)

\* no loop iteration produced this state
NoOp == [step |-> "none", popped |-> <<>>, replies |-> <<>>]

Init ==
    /\ servers = <<>>
    /\ clients = <<>>
    /\ links = <<>>
    /\ event_queue = <<>>
    /\ current_time = 0
    /\ completed_packets = <<>>
    /\ pc = "idle"
    /\ duration = 0
    /\ reservations = <<>>
    /\ calls = <<>>
    /\ dropped = 0
    /\ last = NoOp

\* the fields of NetworkSimulation take the values of the record s
Becomes(s) ==
    /\ servers' = s.servers
    /\ clients' = s.clients
    /\ links' = s.links
    /\ event_queue' = s.event_queue
    /\ current_time' = s.current_time
    /\ completed_packets' = s.completed_packets

\* the history of reservations extended by the slots of one operation
Logged(log, slots) ==
    IF slots = <<>> THEN log
    ELSE [log EXCEPT ![slots[1].link] =
            Append(@, [request_time |-> slots[1].request_time,
                       size_bytes |-> slots[1].size_bytes,
                       start_time |-> slots[1].start_time,
                       trans_time |-> slots[1].trans_time])]

\* the topology is populated before the first packet is injected
Populating == pc = "idle" /\ calls = <<>>

AddServer ==
    \E id \in ServerIds :
        /\ Populating
        /\ Becomes(add_server(Self, [id |-> id, location |-> LocationOf(id),
                                     processing_delay |-> ProcDelay]))
        /\ last' = NoOp
        /\ UNCHANGED <<pc, duration, reservations, calls, dropped>>

AddClient ==
    \E id \in ClientIds :
        /\ Populating
        /\ Becomes(add_client(Self, [id |-> id, location |-> LocationOf(id)]))
        /\ last' = NoOp
        /\ UNCHANGED <<pc, duration, reservations, calls, dropped>>

\* connect_nodes aborts in calculate_distance when an endpoint is no node; a pair
\* of nodes is connected once in each direction, as main connects them
ConnectNodes ==
    \E from_id \in NodeIds, to_id \in NodeIds :
        /\ <<from_id, to_id>> \in LinkPairs
        /\ Populating
        /\ Len(links) < MaxLinks
        /\ find_link(links, from_id, to_id) = 0
        /\ has_loc(servers, clients, from_id)
        /\ has_loc(servers, clients, to_id)
        /\ Becomes(connect_nodes(Self, from_id, to_id, LinkBandwidth))
        /\ reservations' = Append(reservations, <<>>)
        /\ last' = NoOp
        /\ UNCHANGED <<pc, duration, calls, dropped>>

SendPacketEx ==
    \E from \in CallerSources, to \in NodeIds, p_type \in CallerTypes :
        /\ pc = "idle"
        /\ Len(calls) < MaxInject
        /\ Becomes(send_packet_ex(Self, from, to, CallerSize, p_type))
        /\ reservations' = Logged(reservations,
               forward_slot(Self, from, new_packet(Self, from, to, CallerSize, p_type)))
        /\ calls' = Append(calls, [from |-> from, to |-> to, size_bytes |-> CallerSize,
                                   packet_type |-> p_type])
        /\ last' = NoOp
        /\ UNCHANGED <<pc, duration, dropped>>

\* run_simulation(h) is entered
RunSimulation ==
    \E h \in Horizons :
        /\ pc = "idle"
        /\ pc' = "running"
        /\ duration' = h
        /\ last' = NoOp
        /\ UNCHANGED <<servers, clients, links, event_queue, current_time,
                       completed_packets, reservations, calls, dropped>>

\* one iteration of the loop of run_simulation
RunLoop ==
    /\ pc = "running"
    /\ LET r == run_step(Self, duration)
           p == heap_pop(event_queue)
           step == IF event_queue = <<>> THEN "exit"
                   ELSE IF r.continue THEN "dispatch" ELSE "break"
           at == [Self EXCEPT !.event_queue = p.data, !.current_time = p.item.time]
           finalized == /\ step = "dispatch"
                        /\ p.item.event_type.kind = "PacketArrival"
                        /\ p.item.event_type.node = p.item.packet.destination_id
       IN  /\ Becomes(r.self)
           /\ pc' = IF r.continue THEN "running" ELSE "idle"
           /\ duration' = IF r.continue THEN duration ELSE 0
           /\ reservations' = IF step = "dispatch"
                              THEN Logged(reservations, dispatch_slot(at, p.item))
                              ELSE reservations
           /\ dropped' = IF step = "break" THEN dropped + 1 ELSE dropped
           /\ last' = [step |-> step,
                       popped |-> IF step = "exit" THEN <<>> ELSE <<p.item>>,
                       replies |-> IF finalized
                                   THEN reply_call(p.item.event_type.node, p.item.packet)
                                   ELSE <<>>]
    /\ UNCHANGED calls

Next ==
    \/ AddServer
    \/ AddClient
    \/ ConnectNodes
    \/ SendPacketEx
    \/ RunSimulation
    \/ RunLoop

Spec == Init /\ [][Next]_vars

\* the loop of run_simulation is sequential code of one thread: once the function
\* is entered its next iteration is always taken. This is weak fairness of
\* RunLoop, written out with the enabling condition of RunLoop: an iteration
\* always pops or returns, so <<RunLoop>>_vars is enabled exactly while
\* pc = "running"
RunLoopFair == []<>(pc # "running") \/ []<><<RunLoop>>_vars

\* run_simulation is entered with a horizon later than every event: a run to
\* completion
RunSimulationToCompletion ==
    /\ pc = "idle"
    /\ pc' = "running"
    /\ duration' = LongHorizon
    /\ last' = NoOp
    /\ UNCHANGED <<servers, clients, links, event_queue, current_time,
                   completed_packets, reservations, calls, dropped>>

NextLive ==
    \/ AddServer
    \/ AddClient
    \/ ConnectNodes
    \/ SendPacketEx
    \/ RunSimulationToCompletion
    \/ RunLoop

\* the program whose runs all go to completion, with the loop of run_simulation
\* taking its iterations
SpecLive == Init /\ [][NextLive]_vars /\ RunLoopFair

----------------------------------------------------------------------------
(* Topology calls with any id: add_server and add_client take the id the caller
   gives, also one that is in use *)

ProcDelays == {ProcDelay, ProcDelay + 1}

AddServerAny ==
    \E id \in NodeIds, delay \in ProcDelays :
        /\ Populating
        /\ Becomes(add_server(Self, [id |-> id, location |-> LocationOf(id),
                                     processing_delay |-> delay]))
        /\ last' = NoOp
        /\ UNCHANGED <<pc, duration, reservations, calls, dropped>>

AddClientAny ==
    \E id \in NodeIds :
        /\ Populating
        /\ Becomes(add_client(Self, [id |-> id, location |-> LocationOf(id)]))
        /\ last' = NoOp
        /\ UNCHANGED <<pc, duration, reservations, calls, dropped>>

NextNodes ==
    \/ AddServerAny
    \/ AddClientAny
    \/ ConnectNodes

SpecNodes == Init /\ [][NextNodes]_vars

----------------------------------------------------------------------------
(* The router on its own: find_next_hop over link lists of any shape, with
   cycles, self-loops, parallel links and branches that meet again *)

MaxRouterLinks == 4
RouterNodes == {1, 2, 3, 4}
RouterPairs == {<<1, 2>>, <<1, 3>>, <<2, 4>>, <<3, 4>>, <<4, 1>>, <<2, 2>>}

RouterLink(pair) ==
    NetworkLink_new(pair[1], pair[2],
                    distance_to(LocationOf(pair[1]), LocationOf(pair[2])), LinkBandwidth)

\* the link lists that at most MaxRouterLinks calls of connect_nodes build
LinkLists ==
    UNION {{[i \in 1..n |-> RouterLink(s[i])] : s \in [1..n -> RouterPairs]} :
              n \in 0..MaxRouterLinks}

\* a simulation whose nodes were added and connected, with nothing injected
InitRouter ==
    /\ servers = [id \in RouterNodes \ ClientIds |->
                     [location |-> LocationOf(id), processing_delay |-> ProcDelay]]
    /\ clients = [id \in ClientIds |-> [location |-> LocationOf(id)]]
    /\ links \in LinkLists
    /\ reservations = [k \in 1..Len(links) |-> <<>>]
    /\ event_queue = <<>>
    /\ current_time = 0
    /\ completed_packets = <<>>
    /\ pc = "idle"
    /\ duration = 0
    /\ calls = <<>>
    /\ dropped = 0
    /\ last = NoOp

\* one call of find_next_hop on the link list; last keeps the arguments, the answer
\* and the pushes. The search keeps nothing between calls, so one call per list
FindNextHop ==
    \E from \in RouterNodes, to \in RouterNodes :
        /\ last = NoOp
        /\ last' = [step |-> "find_next_hop", from |-> from, to |-> to,
                    first_hop |-> find_next_hop(links, from, to),
                    pushed |-> bfs_pushed(links, to, <<<<from, None>>>>, {from})]
        /\ UNCHANGED <<servers, clients, links, event_queue, current_time,
                       completed_packets, pc, duration, reservations, calls, dropped>>

NextRouter == FindNextHop

SpecRouter == InitRouter /\ [][NextRouter]_vars

----------------------------------------------------------------------------
(* A chain 1 -> 2 -> 3 whose relay, node 2, is a server or a client, and whose
   links back are connected while the simulation goes on: connect_nodes may be
   called at any time between runs *)

RelayKinds == {"server", "client"}
RelayChain == <<<<1, 2>>, <<2, 3>>>>

InitRelay ==
    /\ \E kind \in RelayKinds :
          /\ servers = [id \in (IF kind = "server" THEN {2, 3} ELSE {3}) |->
                           [location |-> LocationOf(id), processing_delay |-> ProcDelay]]
          /\ clients = [id \in (IF kind = "server" THEN {1} ELSE {1, 2}) |->
                           [location |-> LocationOf(id)]]
    /\ links = [k \in 1..Len(RelayChain) |-> RouterLink(RelayChain[k])]
    /\ reservations = [k \in 1..Len(RelayChain) |-> <<>>]
    /\ event_queue = <<>>
    /\ current_time = 0
    /\ completed_packets = <<>>
    /\ pc = "idle"
    /\ duration = 0
    /\ calls = <<>>
    /\ dropped = 0
    /\ last = NoOp

\* connect_nodes between runs, also after packets were injected and delivered
ConnectNodesLate ==
    \E from_id \in NodeIds, to_id \in NodeIds :
        /\ <<from_id, to_id>> \in LinkPairs
        /\ pc = "idle"
        /\ find_link(links, from_id, to_id) = 0
        /\ has_loc(servers, clients, from_id)
        /\ has_loc(servers, clients, to_id)
        /\ Becomes(connect_nodes(Self, from_id, to_id, LinkBandwidth))
        /\ reservations' = Append(reservations, <<>>)
        /\ last' = NoOp
        /\ UNCHANGED <<pc, duration, calls, dropped>>

\* the caller injects at the head of the chain a packet for its end
SendPacketAlongChain ==
    \E p_type \in CallerTypes :
        LET from == RelayChain[1][1]
            to == RelayChain[Len(RelayChain)][2]
        IN  /\ pc = "idle"
            /\ Len(calls) < MaxInject
            /\ Becomes(send_packet_ex(Self, from, to, CallerSize, p_type))
            /\ reservations' = Logged(reservations,
                   forward_slot(Self, from, new_packet(Self, from, to, CallerSize, p_type)))
            /\ calls' = Append(calls, [from |-> from, to |-> to, size_bytes |-> CallerSize,
                                       packet_type |-> p_type])
            /\ last' = NoOp
            /\ UNCHANGED <<pc, duration, dropped>>

NextRelay ==
    \/ ConnectNodesLate
    \/ SendPacketAlongChain
    \/ RunSimulation
    \/ RunLoop

SpecRelay == InitRelay /\ [][NextRelay]_vars

----------------------------------------------------------------------------
(* Properties *)

LinkIds == 1..Len(links)
Pending == {event_queue[i] : i \in 1..Len(event_queue)}

\* C1: on every link the transmission slots [start_time, start_time + trans_time)
\* of any two reservations are disjoint, also for requests made at the same time
C1_SlotsDisjoint ==
    \A k \in DOMAIN reservations :
        \A i, j \in DOMAIN reservations[k] :
            i < j =>
                LET a == reservations[k][i]
                    b == reservations[k][j]
                IN  \/ a.start_time + a.trans_time <= b.start_time
                    \/ b.start_time + b.trans_time <= a.start_time

\* two transmissions that take time were requested on one link at the same time
C1_Witness ==
    \E k \in DOMAIN reservations :
        \E i, j \in DOMAIN reservations[k] :
            /\ i < j
            /\ reservations[k][i].request_time = reservations[k][j].request_time
            /\ reservations[k][i].trans_time > 0
            /\ reservations[k][j].trans_time > 0

\* C2: no step of an injection or of a run lowers the queue_end_time of a link
C2_HorizonMonotone ==
    [][\A k \in LinkIds : links'[k].queue_end_time >= links[k].queue_end_time]_vars

\* a link whose queue-horizon was already ahead of the clock was reserved again
\* by a transmission that takes time
C2_Witness ==
    \E k \in DOMAIN reservations :
        \E i \in DOMAIN reservations[k] :
            /\ i > 1
            /\ reservations[k][i].start_time > reservations[k][i].request_time
            /\ links[k].queue_end_time > reservations[k][i].start_time

\* the slot a step has added to the history of link k
NewSlot(k) == reservations'[k][Len(reservations'[k])]

\* C3: every reservation starts at max(request time, queue-horizon), lasts
\* size_bytes * 8 / bandwidth, schedules the arrival at the far end of the link at
\* start + propagation latency + duration and moves the queue-horizon to
\* start + duration
C3_ReservationArithmetic ==
    [][\A k \in LinkIds :
          Len(reservations'[k]) > Len(reservations[k]) =>
              LET slot == NewSlot(k)
                  start == Max(current_time', links[k].queue_end_time)
                  dur == (slot.size_bytes * 8) \div links[k].bandwidth
              IN  /\ Len(reservations'[k]) = Len(reservations[k]) + 1
                  /\ slot.request_time = current_time'
                  /\ slot.start_time = start
                  /\ slot.trans_time = dur
                  /\ links'[k].queue_end_time = start + dur
                  /\ \E i \in 1..Len(event_queue') :
                        /\ event_queue'[i].time = start + links[k].latency + dur
                        /\ event_queue'[i].event_type = PacketArrival(links[k].to)
                        /\ event_queue'[i].packet.size_bytes = slot.size_bytes
                  /\ Len(event_queue') =
                        Len(event_queue) + (IF pc = "running" THEN 0 ELSE 1)
                  /\ \A j \in LinkIds \ {k} : links'[j] = links[j]]_vars

\* a reservation that had to wait for the link, on a link with a propagation latency
C3_Witness ==
    \E k \in DOMAIN reservations :
        \E i \in DOMAIN reservations[k] :
            /\ reservations[k][i].start_time > reservations[k][i].request_time
            /\ reservations[k][i].trans_time > 0
            /\ links[k].latency > 0
            /\ pc = "running"

\* C4: the loop pops an event of minimum time, every pending event is due no
\* earlier than current_time, and current_time never decreases
C4_DispatchInTimeOrder ==
    [][/\ current_time' >= current_time
       /\ \A i \in 1..Len(event_queue') : event_queue'[i].time >= current_time'
       /\ (pc = "running" /\ event_queue # <<>>) =>
             /\ last'.popped # <<>>
             /\ \A i \in 1..Len(event_queue) : last'.popped[1].time <= event_queue[i].time
             /\ Len(event_queue') >= Len(event_queue) - 1]_vars

\* an event was dispatched while a later one stayed pending
C4_Witness ==
    /\ last.step = "dispatch"
    /\ current_time = last.popped[1].time
    /\ \E i \in 1..Len(event_queue) : event_queue[i].time > current_time
    /\ \E i \in 1..Len(event_queue) : event_queue[i].packet.created_at < current_time

\* C5: when the loop stops at an event later than the horizon, that event stays
\* pending
C5_HorizonKeepsPending ==
    last.step = "break" => last.popped[1] \in Pending

\* C6: from any state between two calls, run_simulation(h1) followed by
\* run_simulation(h2), h1 < h2, ends with the completed packets and the link
\* queue-horizons of a single run_simulation(h2)
C6_TwoPhasesEqualOneRun ==
    pc = "idle" =>
        \A h1, h2 \in Horizons :
            h1 < h2 =>
                LET two == run_simulation(run_simulation(Self, h1), h2)
                    one == run_simulation(Self, h2)
                IN  /\ two.completed_packets = one.completed_packets
                    /\ \A k \in LinkIds :
                          two.links[k].queue_end_time = one.links[k].queue_end_time

\* the completion time of the i-th completed packet
CompletedAt(i) == completed_packets[i][1].created_at + completed_packets[i][2]

\* the caller injected one packet, a TcpSyn, and the runs after it ended on an
\* empty event queue with no event cut off by a horizon
HandshakeRunToCompletion ==
    /\ Len(calls) = 1
    /\ calls[1].packet_type = "TcpSyn"
    /\ pc = "idle"
    /\ last.step = "exit"
    /\ dropped = 0

\* the completed packets are the SYN at B, the SYN-ACK at A and the ACK at B, in
\* this order and at strictly increasing times
ThreeWayHandshake(A, B) ==
    /\ Len(completed_packets) = 3
    /\ completed_packets[1][1].packet_type = "TcpSyn"
    /\ completed_packets[1][1].source_id = A
    /\ completed_packets[1][1].destination_id = B
    /\ completed_packets[2][1].packet_type = "TcpSynAck"
    /\ completed_packets[2][1].source_id = B
    /\ completed_packets[2][1].destination_id = A
    /\ completed_packets[3][1].packet_type = "TcpAck"
    /\ completed_packets[3][1].source_id = A
    /\ completed_packets[3][1].destination_id = B
    /\ CompletedAt(1) < CompletedAt(2)
    /\ CompletedAt(2) < CompletedAt(3)

\* C7, as claimed: a TcpSyn injected from A to B and run to completion completes
\* exactly the SYN, the SYN-ACK and the ACK, for every A and B
C7_HandshakeAlways ==
    HandshakeRunToCompletion => ThreeWayHandshake(calls[1].from, calls[1].to)

\* C7, amended: the same when B can be routed to from A and A from B
C7_HandshakeWhenRouted ==
    (/\ HandshakeRunToCompletion
     /\ find_next_hop(links, calls[1].from, calls[1].to) # None
     /\ find_next_hop(links, calls[1].to, calls[1].from) # None)
        => ThreeWayHandshake(calls[1].from, calls[1].to)

\* a handshake over routes in both directions was run to completion
C7_Witness ==
    /\ HandshakeRunToCompletion
    /\ find_next_hop(links, calls[1].from, calls[1].to) # None
    /\ find_next_hop(links, calls[1].to, calls[1].from) # None
    /\ Len(completed_packets) = 3

\* the reply the table of the protocol hooks gives for a tag, as <<tag, bytes>>
TableReply(tag) ==
    CASE tag = "TcpSyn" -> <<"TcpSynAck", 64>>
      [] tag = "TcpSynAck" -> <<"TcpAck", 64>>
      [] tag = "CdnRequest" -> <<"CdnResponse", 1024>>
      [] tag \in {"TcpAck", "CdnResponse", "Standard"} -> <<>>

\* an event the step has dispatched: an arrival at the packet's destination
Finalizes(e) ==
    /\ e.event_type.kind = "PacketArrival"
    /\ e.event_type.node = e.packet.destination_id

\* C8: a packet finalized at its destination triggers the one reply of the table,
\* injected from the arrival node towards the packet's source, or none; no
\* dispatch triggers more than one reply, and nothing but a finalization any
C8_ReplyTable ==
    [][(pc = "running" /\ last'.step = "dispatch") =>
          LET e == last'.popped[1]
              node == e.event_type.node
              want == IF Finalizes(e) THEN TableReply(e.packet.packet_type) ELSE <<>>
              routed == find_next_hop(links, node, e.packet.source_id) # None
              fresh == {i \in 1..Len(event_queue') :
                            /\ event_queue'[i].packet.created_at = e.time
                            /\ event_queue'[i].packet.source_id = node
                            /\ event_queue'[i].packet.destination_id = e.packet.source_id
                            /\ event_queue'[i].packet.packet_type = want[1]
                            /\ event_queue'[i].packet.size_bytes = want[2]
                            /\ event_queue'[i].event_type.kind = "PacketArrival"}
          IN  /\ Len(last'.replies) <= 1
              /\ (want = <<>>) = (last'.replies = <<>>)
              /\ want # <<>> =>
                    /\ last'.replies[1] = [from |-> node, to |-> e.packet.source_id,
                                           size_bytes |-> want[2], packet_type |-> want[1]]
                    /\ routed => fresh # {}
              /\ Finalizes(e) =>
                    Len(event_queue') = Len(event_queue) - 1
                        + (IF want # <<>> /\ routed THEN 1 ELSE 0)]_vars

\* a CdnRequest was finalized and its CdnResponse scheduled, after the TcpAck of
\* a handshake was finalized
C8_Witness ==
    /\ last.step = "dispatch"
    /\ Finalizes(last.popped[1])
    /\ last.popped[1].packet.packet_type = "CdnRequest"
    /\ \E i \in 1..Len(event_queue) :
          /\ event_queue[i].packet.packet_type = "CdnResponse"
          /\ event_queue[i].packet.created_at = current_time
    /\ \E i \in 1..Len(completed_packets) :
          completed_packets[i][1].packet_type = "TcpAck"

\* the packets that are pending or completed
Packets ==
    [i \in 1..Len(event_queue) |-> event_queue[i].packet]
        \o [i \in 1..Len(completed_packets) |-> completed_packets[i][1]]

\* C9: the packets pending or completed in a simulation have pairwise different ids
C9_IdsUnique ==
    \A i, j \in DOMAIN Packets : i # j => Packets[i].id # Packets[j].id

\* C10: a packet with no route from its node to its destination is dropped: no
\* event is scheduled for it, no link is touched, it is not recorded as completed,
\* and a run goes on; at an injection by the caller, at the injection of a reply
\* and at a transmission-complete event
C10_NoRouteDrops ==
    [][/\ (calls' # calls /\
           find_next_hop(links, calls'[Len(calls')].from, calls'[Len(calls')].to) = None) =>
              /\ event_queue' = event_queue
              /\ links' = links
              /\ completed_packets' = completed_packets
              /\ current_time' = current_time
              /\ pc' = pc
       /\ (pc = "running" /\ last'.step = "dispatch") =>
              LET e == last'.popped[1]
                  node == e.event_type.node
                  reply == last'.replies
              IN  /\ (reply # <<>> /\ find_next_hop(links, reply[1].from, reply[1].to) = None) =>
                        /\ Len(event_queue') = Len(event_queue) - 1
                        /\ \A i \in 1..Len(event_queue') : event_queue'[i] \in Pending
                        /\ links' = links
                        /\ completed_packets' =
                              Append(completed_packets, <<e.packet, e.time - e.packet.created_at>>)
                        /\ pc' = "running"
                  /\ (/\ e.event_type.kind = "PacketTransmissionComplete"
                      /\ find_next_hop(links, node, e.packet.destination_id) = None) =>
                        /\ Len(event_queue') = Len(event_queue) - 1
                        /\ \A i \in 1..Len(event_queue') : event_queue'[i] \in Pending
                        /\ links' = links
                        /\ completed_packets' = completed_packets
                        /\ pc' = "running"]_vars

\* a packet was injected with no route, another packet was delivered by the run
\* after it, and a reply found no route back
C10_Witness ==
    /\ \E i \in DOMAIN calls :
          /\ find_next_hop(links, calls[i].from, calls[i].to) = None
          /\ \E j \in DOMAIN calls : j > i /\ find_next_hop(links, calls[j].from, calls[j].to) # None
    /\ last.step = "dispatch"
    /\ last.replies # <<>>
    /\ find_next_hop(links, last.replies[1].from, last.replies[1].to) = None
    /\ pc = "running"

\* C11: a call of send_packet_ex by the caller for a source and a destination with
\* no path between them leaves the simulation as it was: the same pending events in
\* the same places, the same completed packets, the same current time, and the same
\* links with the same queue horizon each
C11_NoPathLeavesState ==
    [][(calls' # calls /\
        find_next_hop(links, calls'[Len(calls')].from, calls'[Len(calls')].to) = None) =>
           /\ event_queue' = event_queue
           /\ completed_packets' = completed_packets
           /\ current_time' = current_time
           /\ Len(links') = Len(links)
           /\ \A k \in LinkIds : links'[k].queue_end_time = links[k].queue_end_time
           /\ servers' = servers
           /\ clients' = clients]_vars

\* the caller injected a packet between two nodes of the topology with no path from
\* the one to the other, while an earlier packet was pending on a reserved link
C11_Witness ==
    /\ Len(calls) = 2
    /\ has_loc(servers, clients, calls[2].from)
    /\ has_loc(servers, clients, calls[2].to)
    /\ calls[2].from # calls[2].to
    /\ find_next_hop(links, calls[2].from, calls[2].to) = None
    /\ Len(event_queue) = 1
    /\ \E k \in LinkIds : links[k].queue_end_time > 0
    /\ last = NoOp
    /\ pc = "idle"

\* C12: a node that is present stays as it is and its id is taken by no other node:
\* a server is never replaced and its id never becomes a client's, a client is never
\* replaced and its id never becomes a server's
C12_IdsNameOneNode ==
    [][\A id \in NodeIds :
          /\ id \in DOMAIN servers =>
                /\ id \in DOMAIN servers'
                /\ servers'[id] = servers[id]
                /\ id \notin DOMAIN clients'
          /\ id \in DOMAIN clients =>
                /\ id \in DOMAIN clients'
                /\ clients'[id] = clients[id]
                /\ id \notin DOMAIN servers']_vars

\* C13: a call of send_packet_ex that names a source or a destination that is no
\* node of the topology does not return as a call does that finds no route: every
\* injection that returned to the caller names a server or a client at both ends
\* (nodes are neither added nor removed once a packet was injected)
C13_UnknownNodeRejected ==
    \A i \in DOMAIN calls :
        /\ has_loc(servers, clients, calls[i].from)
        /\ has_loc(servers, clients, calls[i].to)

\* the least number of links on a path from a node of frontier to the node to, plus
\* d; None when there is no path. seen holds the nodes within d links of the start
RECURSIVE hop_levels(_, _, _, _, _)
hop_levels(lks, frontier, seen, to, d) ==
    IF to \in frontier THEN d
    ELSE LET next == {lks[i].to : i \in {j \in 1..Len(lks) : lks[j].from \in frontier}} \ seen
         IN  IF next = {} THEN None
             ELSE hop_levels(lks, next, seen \cup next, to, d + 1)

hopdist(lks, from, to) == hop_levels(lks, {from}, {from}, to, 0)

\* C14: for distinct nodes from and to, find_next_hop(from, to) is none exactly when
\* to is unreachable from from; otherwise it is a node n with a link from -> n and
\* hopdist(n, to) = hopdist(from, to) - 1
C14_FirstHopOfShortestPath ==
    (last.step = "find_next_hop" /\ last.from # last.to) =>
        LET n == last.first_hop
            d == hopdist(links, last.from, last.to)
        IN  /\ (n = None) = (d = None)
            /\ n # None =>
                  /\ find_link(links, last.from, n) # 0
                  /\ hopdist(links, n, last.to) = d - 1

\* find_next_hop answered for a destination two links away on a cycle through the
\* source, where another link leaves the source
C14_Witness ==
    /\ last.step = "find_next_hop"
    /\ last.first_hop # None
    /\ hopdist(links, last.from, last.to) = 2
    /\ hopdist(links, last.to, last.from) # None
    /\ \E k \in LinkIds : /\ links[k].from = last.from
                         /\ links[k].to # last.first_hop

\* C15: one search of find_next_hop pushes each node at most once, the source
\* included, whatever the link list: so the while loop runs at most once per node
\* and the search ends, on graphs with cycles and self-loops too
C15_EnqueuedAtMostOnce ==
    last.step = "find_next_hop" =>
        LET enqueued == <<last.from>> \o last.pushed
        IN  /\ \A i, j \in DOMAIN enqueued : i # j => enqueued[i] # enqueued[j]
            /\ Len(enqueued) <= Cardinality(RouterNodes)

\* a search that found no path ended after it went round a cycle with a self-loop
\* on it: the links 1 -> 2, 2 -> 2, 2 -> 4 and 4 -> 1 were all followed
C15_Witness ==
    /\ last.step = "find_next_hop"
    /\ last.first_hop = None
    /\ last.from = 1
    /\ last.to = 3
    /\ last.pushed = <<2, 4>>
    /\ \E k \in LinkIds : links[k].from = 2 /\ links[k].to = 2
    /\ \E k \in LinkIds : links[k].from = 4 /\ links[k].to = 1

\* the sum of the propagation latencies of the links a packet is sent over from
\* node to its destination to: at every node the first link to the next hop
RECURSIVE path_latency(_, _, _)
path_latency(lks, node, to) ==
    IF node = to THEN 0
    ELSE LET n == find_next_hop(lks, node, to)
         IN  lks[find_link(lks, node, n)].latency + path_latency(lks, n, to)

\* C17: the latency recorded for a packet when it is completed is at least the sum
\* of the propagation latencies of the links it went over from its source to its
\* destination
C17_LatencyAtLeastPropagation ==
    (last.step = "dispatch" /\ Finalizes(last.popped[1])) =>
        LET packet == completed_packets[Len(completed_packets)][1]
            latency == completed_packets[Len(completed_packets)][2]
        IN  /\ packet = last.popped[1].packet
            /\ latency >= path_latency(links, packet.source_id, packet.destination_id)

\* a packet that went over two links, through a server, is completed, and another
\* one that waited for the first link behind it
C17_Witness ==
    \E i, j \in DOMAIN completed_packets :
        LET packet == completed_packets[i][1]
            next_hop == find_next_hop(links, packet.source_id, packet.destination_id)
        IN  /\ next_hop # None
            /\ next_hop # packet.destination_id
            /\ path_latency(links, packet.source_id, packet.destination_id) > 0
            /\ j > i
            /\ completed_packets[j][1].source_id = packet.source_id
            /\ completed_packets[j][2] > completed_packets[i][2]

\* the completed packets that the caller injected in a burst: the replies to them
\* carry another packet type
BurstCompleted ==
    {j \in DOMAIN completed_packets :
        completed_packets[j][1].packet_type = calls[1].packet_type}

\* all packets the caller injected are equal, from one node to a neighbour over a
\* single link, all at the same simulated time, and the runs after them ended on an
\* empty event queue with no event cut off by a horizon
BurstRunToCompletion ==
    /\ pc = "idle"
    /\ last.step = "exit"
    /\ dropped = 0
    /\ calls # <<>>
    /\ \A i \in DOMAIN calls : calls[i] = calls[1]
    /\ find_next_hop(links, calls[1].from, calls[1].to) = calls[1].to
    /\ \A i, j \in BurstCompleted :
          completed_packets[i][1].created_at = completed_packets[j][1].created_at

\* C18: after a burst of k equal packets over one link, the packet injected i-th
\* (the one that got id i - 1) is completed with a latency of the link's
\* propagation latency plus i times the transmission time of one packet
C18_Bufferbloat ==
    BurstRunToCompletion =>
        LET link == links[find_link(links, calls[1].from, calls[1].to)]
            trans_time == transmission_time(link, calls[1].size_bytes)
        IN  \A i \in DOMAIN calls :
                \E j \in BurstCompleted :
                    /\ completed_packets[j][1].id = i - 1
                    /\ completed_packets[j][1].source_id = calls[1].from
                    /\ completed_packets[j][2] = link.latency + i * trans_time

\* a burst of at least two packets was run to completion, the last one later than
\* the first
C18_Witness ==
    /\ BurstRunToCompletion
    /\ Len(calls) >= 2
    /\ \E i, j \in BurstCompleted :
          /\ completed_packets[i][1].id = 0
          /\ completed_packets[j][1].id = Len(calls) - 1
          /\ completed_packets[j][2] > completed_packets[i][2]

\* the number of packets that can still follow a packet of this type as replies
replies_left(tag) ==
    CASE tag = "TcpSyn" -> 2
      [] tag = "TcpSynAck" -> 1
      [] tag = "CdnRequest" -> 1
      [] OTHER -> 0

\* a bound on the loop iterations that one pending event can still cause: two for
\* every link left to its destination (an arrival and a transmission-complete),
\* and for every reply that can follow no more than a path over all links takes
event_rank(e) ==
    LET d == hopdist(links, e.event_type.node, e.packet.destination_id)
        hops == IF d = None THEN 0 ELSE d
        own == IF e.event_type.kind = "PacketArrival" THEN 2 * hops + 2 ELSE 2 * hops + 1
    IN  own + replies_left(e.packet.packet_type) * 2 * Len(links)

RECURSIVE queue_rank(_)
queue_rank(q) == IF q = <<>> THEN 0 ELSE event_rank(Head(q)) + queue_rank(Tail(q))

\* C19: run_simulation ends: an iteration of its loop either leaves the loop, and
\* does so exactly when no event is pending or every pending event, so the next
\* one, is later than the horizon, or it dispatches one event, after which the
\* pending events are no more than before and their rank, a natural number, is less
C19_RunTerminates ==
    [][pc = "running" =>
          LET ends == \/ event_queue = <<>>
                      \/ \A e \in Pending : e.time > duration
          IN  /\ (pc' = "idle") = ends
              /\ pc' = "running" =>
                    /\ Len(event_queue') <= Len(event_queue)
                    /\ queue_rank(event_queue') < queue_rank(event_queue)]_vars

\* under a horizon later than every event, a run of two injected packets has
\* delivered a packet and its reply and has just scheduled a further reply
C19_Witness ==
    /\ pc = "running"
    /\ duration = LongHorizon
    /\ Len(calls) = 2
    /\ Len(completed_packets) >= 2
    /\ last.step = "dispatch"
    /\ last.replies # <<>>
    /\ \E i \in 1..Len(event_queue) :
          /\ event_queue[i].packet.packet_type = last.replies[1].packet_type
          /\ event_queue[i].packet.created_at = current_time

\* the number of pending events in q that carry the packet
events_of(q, packet) == Cardinality({i \in 1..Len(q) : q[i].packet = packet})

\* C20: the dispatch of an arrival event at the destination of its packet appends
\* exactly one record to completed_packets, the packet with the event's time less
\* the packet's creation time, and schedules no event for that packet: what is
\* pending afterwards was pending before or is the arrival of a reply sent from
\* this node
C20_DeliveryRecordsOnce ==
    [][(pc = "running" /\ last'.step = "dispatch" /\ Finalizes(last'.popped[1])) =>
          LET e == last'.popped[1]
          IN  /\ current_time' = e.time
              /\ completed_packets' =
                    Append(completed_packets,
                           <<e.packet, current_time' - e.packet.created_at>>)
              /\ events_of(event_queue', e.packet) = events_of(event_queue, e.packet) - 1
              /\ \A i \in 1..Len(event_queue') :
                    \/ event_queue'[i] \in Pending
                    \/ /\ event_queue'[i].event_type.kind = "PacketArrival"
                       /\ event_queue'[i].packet.source_id = e.event_type.node
                       /\ event_queue'[i].packet.created_at = e.time
                       /\ event_queue'[i].packet # e.packet]_vars

\* a packet that went over two links was recorded at its destination, later than it
\* was created, while another packet was still pending
C20_Witness ==
    /\ last.step = "dispatch"
    /\ Finalizes(last.popped[1])
    /\ completed_packets # <<>>
    /\ completed_packets[Len(completed_packets)][1] = last.popped[1].packet
    /\ completed_packets[Len(completed_packets)][2] = current_time
    /\ current_time > 0
    /\ find_next_hop(links, last.popped[1].packet.source_id, last.popped[1].event_type.node)
          # last.popped[1].event_type.node
    /\ event_queue # <<>>

\* the number of places of the queue q that hold the event e
places_of(q, e) == Cardinality({i \in 1..Len(q) : q[i] = e})

\* C21: the dispatch of an arrival event at a node N that is not the destination of
\* its packet schedules exactly one event, the transmission-complete event for N
\* with the same packet at the event's time plus the processing delay of N, which is
\* that of the server N or 0 when N is a client; completed_packets and the links
\* stay as they are
C21_RelaySchedulesTransmission ==
    [][(/\ pc = "running"
        /\ last'.step = "dispatch"
        /\ last'.popped[1].event_type.kind = "PacketArrival"
        /\ ~Finalizes(last'.popped[1])) =>
          LET e == last'.popped[1]
              N == e.event_type.node
              d == IF N \in DOMAIN servers THEN servers[N].processing_delay ELSE 0
              scheduled == [time |-> e.time + d, packet |-> e.packet,
                            event_type |-> PacketTransmissionComplete(N)]
          IN  /\ current_time' = e.time
              /\ Len(event_queue') = Len(event_queue)
              /\ places_of(event_queue', scheduled) = places_of(event_queue, scheduled) + 1
              /\ \A i \in 1..Len(event_queue') :
                    event_queue'[i] \in Pending \/ event_queue'[i] = scheduled
              /\ completed_packets' = completed_packets
              /\ links' = links]_vars

\* after an earlier packet was delivered, an arrival at the relay was dispatched
\* where the relay is a client: its transmission-complete event is pending for the
\* time of the arrival itself
C21_Witness ==
    /\ last.step = "dispatch"
    /\ last.popped[1].event_type.kind = "PacketArrival"
    /\ ~Finalizes(last.popped[1])
    /\ last.popped[1].event_type.node \in DOMAIN clients
    /\ last.popped[1].event_type.node \notin DOMAIN servers
    /\ \E i \in 1..Len(event_queue) :
          /\ event_queue[i].event_type = PacketTransmissionComplete(last.popped[1].event_type.node)
          /\ event_queue[i].packet = last.popped[1].packet
          /\ event_queue[i].time = current_time
    /\ completed_packets # <<>>

\* the neighbours of from that are first hops of shortest paths to the node to
shortest_first_hops(lks, from, to) ==
    {n \in RouterNodes :
        /\ find_link(lks, from, n) # 0
        /\ hopdist(lks, from, to) # None
        /\ hopdist(lks, n, to) = hopdist(lks, from, to) - 1}

\* C22: among the neighbours of from that are first hops of shortest paths to to,
\* find_next_hop(from, to) is the one whose first link from from is earliest in
\* the list of links, wherever the shortest paths meet
C22_TieBreakByInsertion ==
    (last.step = "find_next_hop" /\ last.from # last.to) =>
        LET tied == shortest_first_hops(links, last.from, last.to)
        IN  tied # {} =>
              /\ last.first_hop \in tied
              /\ \A m \in tied :
                    find_link(links, last.from, last.first_hop) <= find_link(links, last.from, m)

\* two neighbours of the source lead to the destination over two links each, and
\* the answer is the neighbour connected first, the one with the larger id
C22_Witness ==
    /\ last.step = "find_next_hop"
    /\ Cardinality(shortest_first_hops(links, last.from, last.to)) = 2
    /\ hopdist(links, last.from, last.to) = 2
    /\ \E m \in shortest_first_hops(links, last.from, last.to) : m < last.first_hop

\* C23, as claimed: run_simulation(h) dispatches an event only when its time is at
\* most h and sets current_time to it; it leaves its loop only when no pending
\* event has a time of at most h; it records completions at times of at most h only;
\* and when it has left its loop current_time is at most h
C23_RunUpToHorizon ==
    [][pc = "running" =>
          /\ pc' = "running" =>
                /\ last'.popped[1].time <= duration
                /\ current_time' = last'.popped[1].time
          /\ pc' = "idle" => \A e \in Pending : e.time > duration
          /\ completed_packets' # completed_packets => current_time' <= duration
          /\ pc' = "idle" => current_time' <= duration]_vars

\* C23, amended: as claimed, but current_time at the end of run_simulation(h) is at
\* most h only if the run dispatched an event; a run that dispatches none leaves
\* current_time where an earlier run put it
C23_RunUpToHorizonOrLater ==
    [][pc = "running" =>
          /\ pc' = "running" =>
                /\ last'.popped[1].time <= duration
                /\ current_time' = last'.popped[1].time
          /\ pc' = "idle" => \A e \in Pending : e.time > duration
          /\ completed_packets' # completed_packets => current_time' <= duration
          /\ pc' = "idle" => current_time' = current_time
          /\ current_time' <= Max(duration, current_time)]_vars

\* a run left its loop at an event later than its horizon after it had dispatched
\* an event scheduled during the run for the time of the horizon itself
C23_Witness ==
    /\ last.step = "break"
    /\ current_time = ShortHorizon
    /\ last.popped[1].time > ShortHorizon
    /\ last.popped[1].packet.created_at = 0
    /\ pc = "idle"

\* C24: a link created by connect_nodes starts with a queue horizon equal to the
\* current simulated time at the call, whenever the call is made
C24_LinkStartsAtCurrentTime ==
    [][Len(links') = Len(links) + 1 =>
          links'[Len(links')].queue_end_time = current_time]_vars

\* C25: a call of send_packet_ex by the caller that finds no route writes a
\* diagnostic, returns to the caller, and schedules nothing then or later for the
\* packet
C25_NoRouteDiagnostic ==
    [][(calls' # calls /\
        find_next_hop(links, calls'[Len(calls')].from, calls'[Len(calls')].to) = None) =>
           LET call == calls'[Len(calls')]
           IN  /\ send_packet_ex_printed(Self, call.from, call.to,
                                         call.size_bytes, call.packet_type) # <<>>
               /\ pc' = "idle"
               /\ event_queue' = event_queue]_vars

\* the packet is the reply that the call rc of send_packet_ex creates at time now
IsReplyOf(packet, rc, now) ==
    /\ packet.packet_type = rc.packet_type
    /\ packet.source_id = rc.from
    /\ packet.destination_id = rc.to
    /\ packet.created_at = now

\* C26: when a packet that asks for a reply was finalized at its destination and
\* there is no path from there back to its source, the packet is the last record
\* of completed_packets, with the time it took, and the reply is nowhere: no
\* pending event carries it and no record of completed_packets holds it
C26_ReplyDroppedPacketRecorded ==
    (/\ last.step = "dispatch"
     /\ Finalizes(last.popped[1])
     /\ last.replies # <<>>
     /\ find_next_hop(links, last.replies[1].from, last.replies[1].to) = None) =>
        LET e == last.popped[1]
            rc == last.replies[1]
        IN  /\ current_time = e.time
            /\ completed_packets # <<>>
            /\ completed_packets[Len(completed_packets)] =
                  <<e.packet, e.time - e.packet.created_at>>
            /\ \A i \in 1..Len(event_queue) : ~IsReplyOf(event_queue[i].packet, rc, e.time)
            /\ \A i \in 1..Len(completed_packets) :
                  ~IsReplyOf(completed_packets[i][1], rc, e.time)

\* a TcpSyn that went over the relay was finalized at the end of the chain, from
\* where a link leads back to the relay but none from the relay to the source
C26_Witness ==
    /\ last.step = "dispatch"
    /\ Finalizes(last.popped[1])
    /\ last.popped[1].packet.packet_type = "TcpSyn"
    /\ last.replies # <<>>
    /\ find_next_hop(links, last.replies[1].from, last.replies[1].to) = None
    /\ find_link(links, last.replies[1].from, 2) # 0
    /\ completed_packets[Len(completed_packets)][1] = last.popped[1].packet
    /\ completed_packets[Len(completed_packets)][2] > 0

\* C27: find_next_hop(n, n) is none for every node n, also when a link n -> n
\* exists, and so a packet injected from n to n is dropped: send_packet_ex returns
\* the simulation with the same pending events, completed packets and links
C27_SelfSendDropped ==
    (last.step = "find_next_hop" /\ last.from = last.to) =>
        /\ last.first_hop = None
        /\ \A p_type \in PacketType :
              LET after == send_packet_ex(Self, last.from, last.to, CallerSize, p_type)
              IN  /\ after.event_queue = event_queue
                  /\ after.completed_packets = completed_packets
                  /\ after.links = links

\* find_next_hop(2, 2) was called where node 2 has a link to itself and lies on a
\* cycle as well
C27_Witness ==
    /\ last.step = "find_next_hop"
    /\ last.from = last.to
    /\ find_link(links, last.from, last.from) # 0
    /\ \E n \in RouterNodes \ {last.from} :
          /\ hopdist(links, last.from, n) # None
          /\ hopdist(links, n, last.from) # None
    /\ last.first_hop = None

\* the number of packets created so far: one by each call of the caller and one by
\* each reply call, which is made for every completed packet that asks for a reply
PacketsCreated ==
    Len(calls) + Cardinality({i \in DOMAIN completed_packets :
                                 TableReply(completed_packets[i][1].packet_type) # <<>>})

\* C28: no packet is carried by two pending events, none is recorded as completed
\* twice, none is pending and completed at once, and the pending events and the
\* completed records together are no more than the packets created. A packet is
\* its whole record, as ids repeat (C9)
C28_PacketConservation ==
    /\ \A i, j \in 1..Len(event_queue) :
          i # j => event_queue[i].packet # event_queue[j].packet
    /\ \A i, j \in DOMAIN completed_packets :
          i # j => completed_packets[i][1] # completed_packets[j][1]
    /\ \A i \in 1..Len(event_queue), j \in DOMAIN completed_packets :
          event_queue[i].packet # completed_packets[j][1]
    /\ Len(event_queue) + Len(completed_packets) <= PacketsCreated

\* two packets are pending, one at the relay and one behind it, while a packet and
\* its reply are recorded as completed
C28_Witness ==
    /\ Len(event_queue) = 2
    /\ \E i \in 1..Len(event_queue) :
          event_queue[i].event_type.kind = "PacketTransmissionComplete"
    /\ Len(completed_packets) >= 2
    /\ Len(event_queue) + Len(completed_packets) = PacketsCreated
    /\ pc = "running"

\* the runs so far ended on an empty event queue and no event was lost to a horizon
RunToCompletion ==
    /\ pc = "idle"
    /\ last.step = "exit"
    /\ dropped = 0

\* the state part of C29: every pending event is at a node from which
\* the destination of its packet is reachable; a transmission-complete event that
\* was dispatched has scheduled the arrival of its packet one link closer to the
\* destination; and after a run to completion every packet of the caller with a
\* route is recorded as completed, and so is the reply to every completed packet
\* from whose destination a route leads back. The links are those of the time of
\* the injection: none is added or removed once a packet was injected
RoutedPacketsComplete ==
    /\ \A i \in 1..Len(event_queue) :
          hopdist(links, event_queue[i].event_type.node,
                  event_queue[i].packet.destination_id) # None
    /\ (last.step = "dispatch" /\
        last.popped[1].event_type.kind = "PacketTransmissionComplete") =>
          \E i \in 1..Len(event_queue) :
              /\ event_queue[i].packet = last.popped[1].packet
              /\ event_queue[i].event_type.kind = "PacketArrival"
              /\ hopdist(links, event_queue[i].event_type.node,
                         last.popped[1].packet.destination_id)
                    = hopdist(links, last.popped[1].event_type.node,
                              last.popped[1].packet.destination_id) - 1
    /\ RunToCompletion =>
          /\ \A from \in CallerSources, to \in NodeIds, p_type \in CallerTypes :
                find_next_hop(links, from, to) # None =>
                    Cardinality({i \in DOMAIN calls :
                        /\ calls[i].from = from
                        /\ calls[i].to = to
                        /\ calls[i].packet_type = p_type})
                    = Cardinality({j \in DOMAIN completed_packets :
                        /\ completed_packets[j][1].source_id = from
                        /\ completed_packets[j][1].destination_id = to
                        /\ completed_packets[j][1].packet_type = p_type})
          /\ \A j \in DOMAIN completed_packets :
                LET packet == completed_packets[j][1]
                    reply == TableReply(packet.packet_type)
                IN  (reply # <<>> /\
                     find_next_hop(links, packet.destination_id, packet.source_id) # None) =>
                        \E r \in DOMAIN completed_packets :
                            IsReplyOf(completed_packets[r][1],
                                      [packet_type |-> reply[1],
                                       from |-> packet.destination_id,
                                       to |-> packet.source_id],
                                      packet.created_at + completed_packets[j][2])

\* C29: a packet that had a route when it was injected is completed once the
\* simulation has run to completion: RoutedPacketsComplete holds in every state,
\* and a run whose horizon is later than every event goes on until no event is
\* pending (the loop of run_simulation, once entered, keeps taking its steps)
C29_RoutedPacketsEventuallyComplete ==
    /\ []RoutedPacketsComplete
    /\ (pc = "running" /\ duration = LongHorizon)
          ~> (pc = "idle" /\ event_queue = <<>> /\ last.step = "exit")

\* after a run to completion a packet that went over two links is recorded as
\* completed, and so is one that was injected behind it
C29_Witness ==
    /\ RunToCompletion
    /\ Len(calls) = 2
    /\ Len(completed_packets) >= 2
    /\ \E j \in DOMAIN completed_packets :
          hopdist(links, completed_packets[j][1].source_id,
                  completed_packets[j][1].destination_id) = 2

\* C30: send_packet_ex and run_simulation leave the topology as it is: the maps
\* of servers and clients, the number and order of the links and every field of
\* each link but queue_end_time are the same after a call of send_packet_ex,
\* after the entry of run_simulation and after each iteration of its loop; a
\* call of send_packet_ex, by the caller or for a reply inside the loop, leaves
\* current_time and completed_packets as they are
C30_TopologyUnchanged ==
    [][(calls' # calls \/ pc = "running" \/ pc' = "running") =>
          /\ servers' = servers
          /\ clients' = clients
          /\ Len(links') = Len(links)
          /\ \A k \in DOMAIN links :
                [links'[k] EXCEPT !.queue_end_time = 0] =
                    [links[k] EXCEPT !.queue_end_time = 0]
          /\ (calls' # calls) =>
                /\ current_time' = current_time
                /\ completed_packets' = completed_packets
          /\ (pc = "running" /\ last'.replies # <<>>) =>
                LET rc == last'.replies[1]
                    at == [Self EXCEPT !.event_queue = heap_pop(event_queue).data,
                                       !.current_time = current_time']
                    replied == send_packet_ex(at, rc.from, rc.to, rc.size_bytes,
                                              rc.packet_type)
                IN  /\ replied.current_time = at.current_time
                    /\ replied.completed_packets = at.completed_packets
                    /\ replied.servers = at.servers
                    /\ replied.clients = at.clients
                    /\ Len(replied.links) = Len(at.links)
                    /\ Len(completed_packets') = Len(at.completed_packets) + 1]_vars

\* a caller's packet and the reply to it have each reserved a slot: after the run
\* two links have a queue_end_time later than 0, the reply is delivered, and the
\* clock has advanced
C30_Witness ==
    /\ pc = "idle"
    /\ last.step = "exit"
    /\ Len(links) = 2
    /\ \A k \in DOMAIN links : links[k].queue_end_time > 0
    /\ Len(calls) = 1
    /\ Len(completed_packets) >= 2
    /\ current_time > 0

====
